---- MODULE Spec2Model ----
(***************************************************************************)
(* ChainMap<K, V> (src/src/lib.rs): an ordered vector of hash maps that is *)
(* looked up as one map.  A hash map is a function whose domain is a       *)
(* subset of Keys; the vector `maps` is a sequence of such functions, with *)
(* maps[1] the Rust maps[0].                                               *)
(***************************************************************************)
EXTENDS Integers, Sequences, FiniteSets, TLC

\* Keys and values the callers draw from, and the longest chain explored.
Keys == {"k1", "k2"}
Values == {"one", "two"}
MaxLayers == 3

\* Option<T>
None == [tag |-> "None"]
Some(x) == [tag |-> "Some", val |-> x]

\* Placeholder for an argument the last call did not take.
NoArg == "-"

\* HashMap<K, V>: every map from keys of ks to Values.
HashMaps(ks) == UNION {[D -> Values] : D \in SUBSET ks}

\* ChainMapType<K, V> = HashMap<K, V>
ChainMapType == HashMaps(Keys)

\* HashMap::new()
HashMapNew == [x \in {} |-> "one"]

\* HashMap::get
HashMapGet(m, k) == IF k \in DOMAIN m THEN Some(m[k]) ELSE None

\* HashMap::insert: the map afterwards, and the value it returns.
HashMapInsert(m, k, v) ==
    [map |-> [x \in (DOMAIN m) \cup {k} |-> IF x = k THEN v ELSE m[x]],
     ret |-> HashMapGet(m, k)]

\* HashMap::is_empty
HashMapIsEmpty(m) == DOMAIN m = {}

\* Vec<ChainMapType<K, V>>: the vectors of at most n maps of ms.
Chains(ms, n) == UNION {[1..len -> ms] : len \in 0..n}

\* ChainMap::get: the loop over &self.maps from position i on.
RECURSIVE getFrom(_, _, _)
getFrom(ms, i, k) ==
    IF i > Len(ms) THEN None
    ELSE LET r == HashMapGet(ms[i], k)
         IN IF r.tag = "Some" THEN r ELSE getFrom(ms, i + 1, k)

\* A get that scans the chain from its end.
RECURSIVE getFromEnd(_, _, _)
getFromEnd(ms, i, k) ==
    IF i < 1 THEN None
    ELSE LET r == HashMapGet(ms[i], k)
         IN IF r.tag = "Some" THEN r ELSE getFromEnd(ms, i - 1, k)

get_lastwins(ms, k) == getFromEnd(ms, Len(ms), k)

get(ms, k) == getFrom(ms, 1, k)

\* An insert that reports the chain's value for the key, not layer 0's.
insert_chainprev(ms, k, v) ==
    IF Len(ms) = 0 THEN [maps |-> ms, ret |-> None]
    ELSE [maps |-> [ms EXCEPT ![1] = HashMapInsert(ms[1], k, v).map],
          ret |-> get(ms, k)]

\* An insert that creates layer 0 when the chain has none.
insert_autocreate(ms, k, v) ==
    IF Len(ms) = 0
    THEN [maps |-> <<HashMapInsert(HashMapNew, k, v).map>>, ret |-> None]
    ELSE [maps |-> [ms EXCEPT ![1] = HashMapInsert(ms[1], k, v).map],
          ret |-> HashMapInsert(ms[1], k, v).ret]

\* An insert that also overwrites the key in every layer that holds it.
insert_overwrite_all(ms, k, v) ==
    IF Len(ms) = 0 THEN [maps |-> ms, ret |-> None]
    ELSE [maps |-> [i \in 1..Len(ms) |->
                      IF i = 1 \/ k \in DOMAIN ms[i]
                      THEN HashMapInsert(ms[i], k, v).map ELSE ms[i]],
          ret |-> HashMapInsert(ms[1], k, v).ret]

\* ChainMap::insert: the vector afterwards, and the value returned.
insert(ms, k, v) ==
    IF Len(ms) = 0 THEN [maps |-> ms, ret |-> None]
    ELSE [maps |-> [ms EXCEPT ![1] = HashMapInsert(ms[1], k, v).map],
          ret |-> HashMapInsert(ms[1], k, v).ret]

\* ChainMap::is_empty: the loop over &self.maps from position i on.
RECURSIVE isEmptyFrom(_, _)
isEmptyFrom(ms, i) ==
    IF i > Len(ms) THEN TRUE
    ELSE IF ~HashMapIsEmpty(ms[i]) THEN FALSE
    ELSE isEmptyFrom(ms, i + 1)

\* An is_empty that looks at the first map only.
is_empty_first(ms) == Len(ms) = 0 \/ HashMapIsEmpty(ms[1])

is_empty(ms) == isEmptyFrom(ms, 1)

\* ChainMap::new
new(ms) == ms

\* ChainMap::empty
empty == new(<<>>)

\* An add_map that puts the map at the front of the chain.
add_map_front(ms, m) == <<m>> \o ms

\* ChainMap::add_map
add_map(ms, m) == Append(ms, m)

\* The inner loop of to_map: every (k, v) of m inserted into combined.
InsertAll(combined, m) ==
    [x \in (DOMAIN combined) \cup (DOMAIN m) |->
        IF x \in DOMAIN m THEN m[x] ELSE combined[x]]

\* ChainMap::to_map: the outer loop over &self.maps from position i on.
RECURSIVE toMapFrom(_, _, _)
toMapFrom(ms, i, combined) ==
    IF i > Len(ms) THEN combined
    ELSE toMapFrom(ms, i + 1, InsertAll(combined, ms[i]))

to_map(ms) == toMapFrom(ms, 1, HashMapNew)

\* slice::split_at(mid): the two halves.
split_at(ms, mid) ==
    <<SubSeq(ms, 1, mid), SubSeq(ms, mid + 1, Len(ms))>>

\* slice::to_vec on values: a vector of clones of the elements.
to_vec(s) == [i \in 1..Len(s) |-> s[i]]

\* A parents that needs two layers to yield a chain.
parents_strict(ms) ==
    IF Len(ms) > 1 THEN Some(to_vec(split_at(ms, Len(ms) - 1)[1])) ELSE None

\* ChainMap::parents, the vector of the chain returned.
parents(ms) ==
    IF Len(ms) > 0 THEN Some(to_vec(split_at(ms, Len(ms) - 1)[1])) ELSE None

\* A children that drops the last layer instead of the first.
children_tail(ms) ==
    IF Len(ms) > 0 THEN Some(to_vec(split_at(ms, Len(ms) - 1)[1])) ELSE None

\* ChainMap::children, the vector of the chain returned.
children(ms) ==
    IF Len(ms) > 0 THEN Some(to_vec(split_at(ms, 1)[2])) ELSE None

(***************************************************************************)
(* The same operations on storage.  A hash table lives at an address of    *)
(* the heap (a sequence of tables); a chain is the vector of the addresses *)
(* of its tables.  Cloning a table allocates a new one.                    *)
(***************************************************************************)

\* Keys and longest chain explored where a source and a derived value
\* coexist.
DerivedKeys == {"k1"}
MaxDerivedLayers == 2

\* The tables a vector of addresses refers to.
h_view(h, s) == [i \in 1..Len(s) |-> h[s[i]]]

\* A to_vec that copies the addresses and shares the tables.
h_to_vec_shared(h, s) == [heap |-> h, vec |-> s]

\* slice::to_vec on storage: every table cloned into a new allocation.
h_to_vec(h, s) ==
    [heap |-> h \o h_view(h, s), vec |-> [i \in 1..Len(s) |-> Len(h) + i]]

\* ChainMap::insert on storage: the heap afterwards.
h_insert(h, s, k, v) ==
    IF Len(s) = 0 THEN h
    ELSE [h EXCEPT ![s[1]] = HashMapInsert(h[s[1]], k, v).map]

\* ChainMap::add_map on storage: m is moved into the vector.
h_add_map(h, s, m) == [heap |-> Append(h, m), vec |-> Append(s, Len(h) + 1)]

\* ChainMap::parents on storage.
h_parents(h, s) ==
    IF Len(s) > 0
    THEN LET c == h_to_vec(h, split_at(s, Len(s) - 1)[1])
         IN [heap |-> c.heap, ret |-> [tag |-> "chain", maps |-> c.vec]]
    ELSE [heap |-> h, ret |-> None]

\* ChainMap::children on storage.
h_children(h, s) ==
    IF Len(s) > 0
    THEN LET c == h_to_vec(h, split_at(s, 1)[2])
         IN [heap |-> c.heap, ret |-> [tag |-> "chain", maps |-> c.vec]]
    ELSE [heap |-> h, ret |-> None]

\* ChainMap::to_map on storage: combined_map is a new table.
h_to_map(h, s) ==
    [heap |-> Append(h, to_map(h_view(h, s))),
     ret |-> [tag |-> "map", maps |-> <<Len(h) + 1>>]]

\* The addresses a derived value owns.
DerAddrs(d) == IF d.tag = "None" THEN <<>> ELSE d.maps

\* The addresses of seq in order of first occurrence.
RECURSIVE FirstOccurrences(_, _)
FirstOccurrences(seq, seen) ==
    IF seq = <<>> THEN <<>>
    ELSE IF Head(seq) \in seen THEN FirstOccurrences(Tail(seq), seen)
    ELSE <<Head(seq)>> \o FirstOccurrences(Tail(seq), seen \cup {Head(seq)})

\* Drop: the tables no value owns are freed and the others renumbered.
Drop(h, s, d) ==
    LET live == FirstOccurrences(s \o DerAddrs(d), {})
        at(a) == CHOOSE i \in 1..Len(live) : live[i] = a
    IN [heap |-> [i \in 1..Len(live) |-> h[live[i]]],
        src |-> [i \in 1..Len(s) |-> at(s[i])],
        der |-> IF d.tag = "None" THEN d
                ELSE [d EXCEPT !.maps = [i \in 1..Len(d.maps) |-> at(d.maps[i])]]]

(***************************************************************************)
(* One chain and the calls made on it.  op, key, val and layer are the     *)
(* last call and its arguments, ret what it returned, pre the vector as it *)
(* was when the call was made.                                             *)
(***************************************************************************)
VARIABLES maps, pre, op, key, val, layer, ret

\* The storage of a chain and of what was derived from it: heap is the
\* allocated hash tables by address, src the source chain's vector of
\* addresses, der the value last derived from it, dop the last call.
VARIABLES heap, src, der, dop

cvars == <<maps, pre, op, key, val, layer, ret>>
dvars == <<heap, src, der, dop>>
vars == <<cvars, dvars>>

\* The chain of Spec before anything is constructed.
CIdle ==
    /\ maps = <<>>
    /\ pre = <<>>
    /\ op = "idle"
    /\ key = NoArg
    /\ val = NoArg
    /\ layer = NoArg
    /\ ret = None

\* The storage before anything is allocated.
DIdle ==
    /\ heap = <<>>
    /\ src = <<>>
    /\ der = None
    /\ dop = "idle"

\* let cmap = ChainMap::new(vec![...]) or ChainMap::empty()
Init ==
    /\ maps \in {new(ms) : ms \in Chains(ChainMapType, MaxLayers)}
    /\ pre = maps
    /\ op = "new"
    /\ key = NoArg
    /\ val = NoArg
    /\ layer = NoArg
    /\ ret = None
    /\ DIdle

\* cmap.get(&k)
Get(k) ==
    /\ op' = "get"
    /\ key' = k
    /\ val' = NoArg
    /\ layer' = NoArg
    /\ ret' = get(maps, k)
    /\ pre' = maps
    /\ UNCHANGED maps
    /\ UNCHANGED dvars

\* cmap.insert(k, v)
Insert(k, v) ==
    /\ op' = "insert"
    /\ key' = k
    /\ val' = v
    /\ layer' = NoArg
    /\ maps' = insert(maps, k, v).maps
    /\ ret' = insert(maps, k, v).ret
    /\ pre' = maps
    /\ UNCHANGED dvars

\* cmap.is_empty()
IsEmpty ==
    /\ op' = "is_empty"
    /\ key' = NoArg
    /\ val' = NoArg
    /\ layer' = NoArg
    /\ ret' = is_empty(maps)
    /\ pre' = maps
    /\ UNCHANGED maps
    /\ UNCHANGED dvars

\* cmap.add_map(m)
AddMap(m) ==
    /\ Len(maps) < MaxLayers
    /\ op' = "add_map"
    /\ key' = NoArg
    /\ val' = NoArg
    /\ layer' = m
    /\ maps' = add_map(maps, m)
    /\ ret' = None
    /\ pre' = maps
    /\ UNCHANGED dvars

\* cmap.to_map()
ToMap ==
    /\ op' = "to_map"
    /\ key' = NoArg
    /\ val' = NoArg
    /\ layer' = NoArg
    /\ ret' = to_map(maps)
    /\ pre' = maps
    /\ UNCHANGED maps
    /\ UNCHANGED dvars

\* cmap.parents()
Parents ==
    /\ op' = "parents"
    /\ key' = NoArg
    /\ val' = NoArg
    /\ layer' = NoArg
    /\ ret' = parents(maps)
    /\ pre' = maps
    /\ UNCHANGED maps
    /\ UNCHANGED dvars

\* cmap.children()
Children ==
    /\ op' = "children"
    /\ key' = NoArg
    /\ val' = NoArg
    /\ layer' = NoArg
    /\ ret' = children(maps)
    /\ pre' = maps
    /\ UNCHANGED maps
    /\ UNCHANGED dvars

Next ==
    \/ \E k \in Keys : Get(k)
    \/ \E k \in Keys, v \in Values : Insert(k, v)
    \/ IsEmpty
    \/ \E m \in ChainMapType : AddMap(m)
    \/ ToMap
    \/ Parents
    \/ Children

Spec == Init /\ [][Next]_vars

(***************************************************************************)
(* A source chain, the value last derived from it by parents, children or  *)
(* to_map, and the calls that mutate the source or the derived chain.      *)
(***************************************************************************)

\* The derived value as its contents.
DerValue ==
    IF der.tag = "None" THEN None ELSE Some(h_view(heap, der.maps))

\* The source chain as its contents.
SrcValue == h_view(heap, src)

\* let cmap = ChainMap::new(vec![...])
DInit ==
    /\ heap \in {new(ms) : ms \in Chains(HashMaps(DerivedKeys), MaxDerivedLayers)}
    /\ src = [i \in 1..Len(heap) |-> i]
    /\ der = None
    /\ dop = "new"
    /\ CIdle

\* The caller binds the result r of a derivation, dropping the old one.
Bind(r, name) ==
    LET d == Drop(r.heap, src, r.ret)
    IN /\ heap' = d.heap
       /\ src' = d.src
       /\ der' = d.der
       /\ dop' = name
       /\ UNCHANGED cvars

\* let d = cmap.parents()
SrcParents == Bind(h_parents(heap, src), "parents")

\* let d = cmap.children()
SrcChildren == Bind(h_children(heap, src), "children")

\* let d = cmap.to_map()
SrcToMap == Bind(h_to_map(heap, src), "to_map")

\* cmap.insert(k, v)
SrcInsert(k, v) ==
    /\ heap' = h_insert(heap, src, k, v)
    /\ dop' = "src_insert"
    /\ UNCHANGED <<src, der>>
    /\ UNCHANGED cvars

\* cmap.add_map(m)
SrcAddMap(m) ==
    /\ Len(src) < MaxDerivedLayers
    /\ heap' = h_add_map(heap, src, m).heap
    /\ src' = h_add_map(heap, src, m).vec
    /\ dop' = "src_add_map"
    /\ UNCHANGED der
    /\ UNCHANGED cvars

\* d.insert(k, v) on a derived chain
DerInsert(k, v) ==
    /\ der.tag = "chain"
    /\ heap' = h_insert(heap, der.maps, k, v)
    /\ dop' = "der_insert"
    /\ UNCHANGED <<src, der>>
    /\ UNCHANGED cvars

\* d.add_map(m) on a derived chain
DerAddMap(m) ==
    /\ der.tag = "chain"
    /\ Len(der.maps) < MaxDerivedLayers
    /\ heap' = h_add_map(heap, der.maps, m).heap
    /\ der' = [der EXCEPT !.maps = h_add_map(heap, der.maps, m).vec]
    /\ dop' = "der_add_map"
    /\ UNCHANGED src
    /\ UNCHANGED cvars

DNext ==
    \/ SrcParents
    \/ SrcChildren
    \/ SrcToMap
    \/ \E k \in DerivedKeys, v \in Values : SrcInsert(k, v)
    \/ \E m \in HashMaps(DerivedKeys) : SrcAddMap(m)
    \/ \E k \in DerivedKeys, v \in Values : DerInsert(k, v)
    \/ \E m \in HashMaps(DerivedKeys) : DerAddMap(m)

SpecDerive == DInit /\ [][DNext]_vars

(***************************************************************************)
(* Properties of the calls.                                                *)
(***************************************************************************)

\* The positions of the layers of ms that contain k.
Holders(ms, k) == {i \in 1..Len(ms) : k \in DOMAIN ms[i]}

\* The least element of a non-empty set of positions.
Lowest(S) == CHOOSE i \in S : \A j \in S : i <= j

\* C1: get(k) returns the value that the lowest-index layer containing k
\* holds for k, and absence exactly when no layer (or no layer at all)
\* contains k.
C1_GetLowestIndexWins ==
    op = "get" =>
        IF Holders(maps, key) = {}
        THEN ret = None
        ELSE ret = Some(maps[Lowest(Holders(maps, key))][key])

\* get has skipped a layer without the key and chosen between two layers
\* that hold different values for it.
C1_Witness ==
    /\ op = "get"
    /\ Len(maps) = 3
    /\ Holders(maps, key) = {2, 3}
    /\ maps[2][key] # maps[3][key]
    /\ ret = Some(maps[2][key])

\* C2: to_map() contains k exactly when some layer contains k, with the
\* value of the lowest-index layer containing k, so that to_map() and get
\* agree on every key.
C2_ToMapAgreesWithGet ==
    op = "to_map" => \A k \in Keys : HashMapGet(ret, k) = get(maps, k)

\* C3: on a chain with at least one layer, insert(k, v) returns what layer 0
\* held for k before the call (absence if it held nothing, whatever the
\* other layers hold), and get(k) is Some(v) afterwards.
C3_InsertReturnsLayer0Previous ==
    (op = "insert" /\ Len(pre) >= 1) =>
        /\ ret = (IF key \in DOMAIN pre[1] THEN Some(pre[1][key]) ELSE None)
        /\ get(maps, key) = Some(val)

\* insert found the key only in a lower-priority layer and returned absence.
C3_Witness ==
    /\ op = "insert"
    /\ Len(pre) >= 2
    /\ key \notin DOMAIN pre[1]
    /\ key \in DOMAIN pre[2]
    /\ ret = None
    /\ get(maps, key) = Some(val)

\* C4: insert(k, v) on a chain with zero layers returns absence and leaves
\* the chain as it was: still zero layers, is_empty() true, get(k) absent.
C4_InsertOnZeroLayersIsNoOp ==
    (op = "insert" /\ Len(pre) = 0) =>
        /\ ret = None
        /\ maps = pre
        /\ Len(maps) = 0
        /\ is_empty(maps)
        /\ get(maps, key) = None

\* insert has been called on a chain with zero layers.
C4_Witness ==
    /\ op = "insert"
    /\ Len(pre) = 0
    /\ val \in Values
    /\ ret = None

\* C5: parents() returns absence on zero layers, otherwise a chain of the
\* n-1 layers 0..n-2 in order (a zero-layer chain for n = 1); the source
\* chain is unchanged.
C5_ParentsDropsLast ==
    op = "parents" =>
        /\ maps = pre
        /\ Len(pre) = 0 => ret = None
        /\ Len(pre) >= 1 =>
            /\ ret.tag = "Some"
            /\ Len(ret.val) = Len(pre) - 1
            /\ \A i \in 1..(Len(pre) - 1) : ret.val[i] = pre[i]

\* parents has acted on three different layers.
C5_Witness ==
    /\ op = "parents"
    /\ Len(pre) = 3
    /\ pre[1] # pre[2] /\ pre[2] # pre[3] /\ pre[1] # pre[3]
    /\ ret = Some(<<pre[1], pre[2]>>)

\* C6: children() returns absence on zero layers, otherwise a chain of the
\* n-1 layers 1..n-1 in order (a zero-layer chain for n = 1); the source
\* chain is unchanged.
C6_ChildrenDropsFirst ==
    op = "children" =>
        /\ maps = pre
        /\ Len(pre) = 0 => ret = None
        /\ Len(pre) >= 1 =>
            /\ ret.tag = "Some"
            /\ Len(ret.val) = Len(pre) - 1
            /\ \A i \in 1..(Len(pre) - 1) : ret.val[i] = pre[i + 1]

\* children has acted on three different layers.
C6_Witness ==
    /\ op = "children"
    /\ Len(pre) = 3
    /\ pre[1] # pre[2] /\ pre[2] # pre[3] /\ pre[1] # pre[3]
    /\ ret = Some(<<pre[2], pre[3]>>)

\* C7: is_empty() is true exactly when every layer has no entries: true for
\* zero layers and for any number of empty layers, false once a layer at
\* any index holds an entry.
C7_IsEmptyIffAllLayersEmpty ==
    op = "is_empty" =>
        ret = (\A i \in 1..Len(maps) : Cardinality(DOMAIN maps[i]) = 0)

\* is_empty has answered false for a chain whose only entry is in its last
\* layer.
C7_Witness ==
    /\ op = "is_empty"
    /\ Len(maps) = 3
    /\ DOMAIN maps[1] = {} /\ DOMAIN maps[2] = {} /\ DOMAIN maps[3] # {}
    /\ ret = FALSE

\* C8: add_map(L) yields n+1 layers, the first n the unchanged originals in
\* order and the last one L; get(k) afterwards is Some(L[k]) for k in L
\* absent from all prior layers, and as before for k a prior layer held.
C8_AddMapAppends ==
    op = "add_map" =>
        /\ Len(maps) = Len(pre) + 1
        /\ \A i \in 1..Len(pre) : maps[i] = pre[i]
        /\ maps[Len(maps)] = layer
        /\ \A k \in Keys :
            /\ (Holders(pre, k) = {} /\ k \in DOMAIN layer) =>
                   get(maps, k) = Some(layer[k])
            /\ Holders(pre, k) # {} => get(maps, k) = get(pre, k)

\* add_map has appended a layer that adds one key and is shadowed on another.
C8_Witness ==
    /\ op = "add_map"
    /\ Len(pre) = 2
    /\ DOMAIN layer = Keys
    /\ \E k \in Keys : Holders(pre, k) = {} /\ get(maps, k) = Some(layer[k])
    /\ \E k \in Keys : Holders(pre, k) # {} /\ get(maps, k) # Some(layer[k])

\* C9: insert never changes the number of layers nor any layer at index
\* >= 1, and add_map never changes an existing layer: the only entries of
\* an existing layer that change are those of layer 0 that insert wrote.
C9_OnlyLayer0KeyWritten ==
    /\ op = "insert" =>
        /\ Len(maps) = Len(pre)
        /\ \A i \in 2..Len(pre) : maps[i] = pre[i]
        /\ Len(pre) >= 1 =>
            \A k \in Keys \ {key} : HashMapGet(maps[1], k) = HashMapGet(pre[1], k)
    /\ op = "add_map" =>
        /\ Len(maps) >= Len(pre)
        /\ \A i \in 1..Len(pre) : maps[i] = pre[i]

\* insert has overwritten the key in layer 0 while a lower-priority layer
\* holds another value for it and layer 0 holds another key.
C9_Witness ==
    /\ op = "insert"
    /\ Len(pre) = 3
    /\ DOMAIN pre[1] = Keys
    /\ pre[1][key] # val
    /\ key \in DOMAIN pre[3]
    /\ pre[3][key] # val
    /\ maps[1] # pre[1]

\* C10: what parents(), children() and to_map() returned is independent of
\* the source: an insert or add_map on the source leaves the derived chain
\* or map as it was, and an insert or add_map on a derived chain leaves the
\* source as it was.
C10_DerivedIndependent ==
    [][/\ dop' \in {"src_insert", "src_add_map"} => DerValue' = DerValue
       /\ dop' \in {"der_insert", "der_add_map"} => SrcValue' = SrcValue]_vars

\* The source's layer 0 has been written while a derived chain holds a copy
\* of a layer, and the two now differ.
C10_Witness ==
    /\ dop = "src_insert"
    /\ der.tag = "chain"
    /\ Len(der.maps) >= 1
    /\ Len(src) >= 2
    /\ heap[der.maps[1]] # heap[src[1]]
    /\ heap[der.maps[1]] # heap[src[2]]

====
